---------------------------- MODULE Spec2Model ----------------------------
(***************************************************************************)
(* twitter2obsidian: a Twitter archive is loaded, filtered by month,       *)
(* grouped by local calendar month and rendered into one note per month.   *)
(*                                                                         *)
(* Text is a sequence of characters, each character a one-character        *)
(* string ("u300C" and the like name a non-ASCII code point).  An instant  *)
(* is a number of seconds since 1970-01-01T00:00:00Z; a DateTime<Local>    *)
(* is an instant together with the UTC offset the local zone has at that   *)
(* instant.                                                                *)
(***************************************************************************)
EXTENDS Integers, Sequences, FiniteSets, TLC

(***************************************************************************)
(* Bounds of the model.                                                    *)
(***************************************************************************)
\* the longest archive (number of records) of the pipeline
MaxTweets == 3
\* the longest slice handed to generate_activity_stats on its own
MaxStatsTweets == 3
\* the longest text (in fragments) handed to format_text on its own
MaxFragments == 4

VARIABLES
    pc,                \* position of main: load, filter_start, ..., done, exit
    exit_reason,       \* why the process ended early ("" while it has not)
    tz,                \* the zone chrono::Local resolves to
    content,           \* the text of the archive file
    start_month,       \* Args.start_month
    end_month,         \* Args.end_month
    unwritable,        \* output paths File::create fails on
    render_fails,      \* month keys whose render fails
    loaded,            \* main.rs:74  tweets as loaded
    from_start,        \* main.rs:76  tweets after the start filter
    tweets,            \* main.rs:73  tweets after both filters
    tweets_by_yyyymm,  \* main.rs:88  the groups
    remaining,         \* keys the loop of main.rs:100 has not visited yet
    processed,         \* key -> number of times the loop body ran for it
    created,           \* path -> number of File::create calls on it
    files,             \* path -> what the output file holds
    notes,             \* key -> the template input built for it
    log,               \* the messages logged
    stages,            \* the stages of main that completed, in order
    st_tweets,         \* slice under test for generate_activity_stats
    st_stats,          \* its result
    fmt_text,          \* text under test for format_text
    fmt_out            \* its result

vars == <<pc, exit_reason, tz, content, start_month, end_month, unwritable,
          render_fails, loaded, from_start, tweets, tweets_by_yyyymm,
          remaining, processed, created, files, notes, log, stages,
          st_tweets, st_stats, fmt_text, fmt_out>>

pipeline_vars == <<pc, exit_reason, content, start_month, end_month,
                   unwritable, render_fails, loaded, from_start, tweets,
                   tweets_by_yyyymm, remaining, processed, created, files,
                   notes, log, stages>>

(***************************************************************************)
(* Calendar arithmetic of chrono (proleptic Gregorian calendar).           *)
(***************************************************************************)
IsLeapYear(y) == (y % 4 = 0 /\ y % 100 # 0) \/ y % 400 = 0

DaysInMonth(y, m) ==
    IF m = 2 THEN (IF IsLeapYear(y) THEN 29 ELSE 28)
    ELSE IF m \in {4, 6, 9, 11} THEN 30 ELSE 31

\* days from 1970-01-01 to the civil date y-m-d
DaysFromCivil(y, m, d) ==
    LET yy  == IF m <= 2 THEN y - 1 ELSE y
        era == yy \div 400
        yoe == yy - era * 400
        mp  == IF m > 2 THEN m - 3 ELSE m + 9
        doy == (153 * mp + 2) \div 5 + d - 1
        doe == yoe * 365 + yoe \div 4 - yoe \div 100 + doy
    IN  era * 146097 + doe - 719468

\* the civil date of a day number
CivilFromDays(z) ==
    LET zz  == z + 719468
        era == zz \div 146097
        doe == zz - era * 146097
        yoe == (doe - doe \div 1460 + doe \div 36524 - doe \div 146096) \div 365
        doy == doe - (365 * yoe + yoe \div 4 - yoe \div 100)
        mp  == (5 * doy + 2) \div 153
        d   == doy - (153 * mp + 2) \div 5 + 1
        m   == IF mp < 10 THEN mp + 3 ELSE mp - 9
        y   == yoe + era * 400
    IN  [year |-> IF m <= 2 THEN y + 1 ELSE y, month |-> m, day |-> d]

\* a NaiveDateTime, as seconds since 1970-01-01T00:00:00 of its own calendar
NaiveFromCivil(y, m, d, hh, mi, ss) ==
    DaysFromCivil(y, m, d) * 86400 + hh * 3600 + mi * 60 + ss

NaiveFields(n) ==
    LET days == n \div 86400
        secs == n % 86400
        c    == CivilFromDays(days)
    IN  [year |-> c.year, month |-> c.month, day |-> c.day,
         hour |-> secs \div 3600, minute |-> (secs % 3600) \div 60,
         second |-> secs % 60]

WeekdayNames == <<"Sun", "Mon", "Tue", "Wed", "Thu", "Fri", "Sat">>

MonthNames == <<"Jan", "Feb", "Mar", "Apr", "May", "Jun",
                "Jul", "Aug", "Sep", "Oct", "Nov", "Dec">>

\* the weekday of a day number (1970-01-01 was a Thursday)
WeekdayOf(days) == WeekdayNames[((days + 4) % 7) + 1]

MonthNumber(name) == CHOOSE i \in 1..12 : MonthNames[i] = name

(***************************************************************************)
(* chrono::Local.  A zone is its standard offset, its daylight offset and  *)
(* the instants between which daylight time is in force (the 2023 rules).  *)
(***************************************************************************)
AsiaTokyo ==
    [name |-> "Asia/Tokyo", std |-> 32400, dst |-> 32400,
     dst_from |-> 0, dst_until |-> 0]

\* daylight time from 2023-03-12T07:00:00Z until 2023-11-05T06:00:00Z
AmericaNewYork ==
    [name |-> "America/New_York", std |-> -18000, dst |-> -14400,
     dst_from  |-> NaiveFromCivil(2023, 3, 12, 7, 0, 0),
     dst_until |-> NaiveFromCivil(2023, 11, 5, 6, 0, 0)]

Zones == {AsiaTokyo, AmericaNewYork}

\* the offset of the local zone at an instant
LocalOffset(utc) ==
    IF tz.dst_from <= utc /\ utc < tz.dst_until THEN tz.dst ELSE tz.std

\* DateTime<Utc>::with_timezone(&Local)
WithTimezoneLocal(utc) == [utc |-> utc, offset |-> LocalOffset(utc)]

\* DateTime<Local>::naive_local
NaiveLocal(dt) == dt.utc + dt.offset

DtYear(dt)  == NaiveFields(NaiveLocal(dt)).year
DtMonth(dt) == NaiveFields(NaiveLocal(dt)).month
DtHour(dt)  == NaiveFields(NaiveLocal(dt)).hour

\* Ord of DateTime<Local>: the instants are compared, not the wall clocks
DtCmp(a, b) ==
    IF a.utc < b.utc THEN "Less" ELSE IF a.utc > b.utc THEN "Greater" ELSE "Equal"

(***************************************************************************)
(* Strings.                                                                *)
(***************************************************************************)
DigitChars == <<"0", "1", "2", "3", "4", "5", "6", "7", "8", "9">>

RECURSIVE Decimal(_)
\* the decimal digits of a natural number
Decimal(n) ==
    IF n < 10 THEN <<DigitChars[n + 1]>>
    ELSE Decimal(n \div 10) \o <<DigitChars[(n % 10) + 1]>>

RECURSIVE ZeroPad(_, _)
\* {:0w} of a natural number
ZeroPad(n, w) ==
    LET s == Decimal(n)
    IN  IF Len(s) >= w THEN s ELSE <<"0">> \o ZeroPad(n, w - 1)

\* the byte a character of a formatted timestamp is compared by
CharCode(c) ==
    CASE c = " " -> 32
      [] c = "-" -> 45
      [] c = ":" -> 58
      [] OTHER   -> 47 + (CHOOSE i \in 1..10 : DigitChars[i] = c)

RECURSIVE StrCmp(_, _)
\* Ord of String: bytewise lexicographic
StrCmp(a, b) ==
    IF a = <<>> /\ b = <<>> THEN "Equal"
    ELSE IF a = <<>> THEN "Less"
    ELSE IF b = <<>> THEN "Greater"
    ELSE IF CharCode(Head(a)) < CharCode(Head(b)) THEN "Less"
    ELSE IF CharCode(Head(a)) > CharCode(Head(b)) THEN "Greater"
    ELSE StrCmp(Tail(a), Tail(b))

\* DateTime::format("%Y-%m-%d %H:%M:%S")
FormatDateTime(dt) ==
    LET f == NaiveFields(NaiveLocal(dt))
    IN  ZeroPad(f.year, 4) \o <<"-">> \o ZeroPad(f.month, 2) \o <<"-">>
        \o ZeroPad(f.day, 2) \o <<" ">> \o ZeroPad(f.hour, 2) \o <<":">>
        \o ZeroPad(f.minute, 2) \o <<":">> \o ZeroPad(f.second, 2)


(***************************************************************************)
(* tweet.rs                                                                *)
(***************************************************************************)
\* the offset a %z field denotes, in seconds
OffsetSeconds(off) ==
    LET secs == off.hh * 3600 + off.mm * 60
    IN  IF off.neg THEN 0 - secs ELSE secs

\* parse_twitter_date: "%a %b %d %H:%M:%S %z %Y", then with_timezone(&Utc).
\* The string is given by its fields; a field out of range, or a weekday that
\* is not the date's, is a ParseError.
ParseTwitterDate(date) ==
    IF /\ date.wd \in {WeekdayNames[i] : i \in 1..7}
       /\ date.mon \in {MonthNames[i] : i \in 1..12}
       /\ date.day \in 1..DaysInMonth(date.year, MonthNumber(date.mon))
       /\ date.hh \in 0..23 /\ date.mi \in 0..59 /\ date.ss \in 0..59
       /\ date.off.hh \in 0..23 /\ date.off.mm \in 0..59
       /\ WeekdayOf(DaysFromCivil(date.year, MonthNumber(date.mon), date.day))
            = date.wd
    THEN [ok |-> TRUE,
          utc |-> NaiveFromCivil(date.year, MonthNumber(date.mon), date.day,
                                 date.hh, date.mi, date.ss)
                  - OffsetSeconds(date.off)]
    ELSE [ok |-> FALSE]

\* Tweet::new
TweetNew(created_at, full_text, is_reply) ==
    LET parsed == ParseTwitterDate(created_at)
    IN  IF parsed.ok
        THEN [ok |-> TRUE,
              tweet |-> [created_at |-> WithTimezoneLocal(parsed.utc),
                         full_text |-> full_text, is_reply |-> is_reply]]
        ELSE [ok |-> FALSE]

\* Local.with_ymd_and_hms: the instants whose local wall clock reads the
\* given time (one, none in a gap, two in an overlap); unwrap takes the one
LocalWithYmdAndHms(y, m, d, hh, mi, ss) ==
    LET naive == NaiveFromCivil(y, m, d, hh, mi, ss)
    IN  {WithTimezoneLocal(naive - o) : o \in {o \in {tz.std, tz.dst} :
                                                  LocalOffset(naive - o) = o}}

\* Tweet::new_with_local_datetime
TweetNewWithLocalDatetime(created_at, full_text, is_reply) ==
    [created_at |-> created_at, full_text |-> full_text, is_reply |-> is_reply]

\* Tweet::is_retweet: full_text.starts_with("RT @")
IsRetweet(tw) ==
    /\ Len(tw.full_text) >= 4
    /\ SubSeq(tw.full_text, 1, 4) = <<"R", "T", " ", "@">>

\* Value::as_str: Some for a JSON string, None for anything else or nothing
AsStr(field) ==
    IF field.kind = "string" THEN [some |-> TRUE, val |-> field.val]
    ELSE [some |-> FALSE]

\* mutant: only an explicit null counts, an absent member reads as a reply
IsNull_OnlyNull(field) == field.kind = "null"

\* Value::is_null: an absent member indexes to Null
IsNull(field) == field.kind \in {"null", "absent"}

RECURSIVE ParseTweetsFrom(_, _)
\* the map/collect of parse_tweets from record i on: the first record that
\* fails ends it, by a panic (unwrap on None) or by the Err of Tweet::new
ParseTweetsFrom(data, i) ==
    IF i > Len(data) THEN [result |-> "ok", tweets |-> <<>>]
    ELSE LET tw == data[i]
             ca == AsStr(tw.created_at)
             ft == AsStr(tw.full_text)
         IN  IF ~ca.some \/ ~ft.some THEN [result |-> "panic", tweets |-> <<>>]
             ELSE LET made == TweetNew(ca.val, ft.val, ~IsNull(tw.in_reply_to_user_id))
                  IN  IF ~made.ok THEN [result |-> "err", tweets |-> <<>>]
                      ELSE LET rest == ParseTweetsFrom(data, i + 1)
                           IN  IF rest.result = "ok"
                               THEN [result |-> "ok",
                                     tweets |-> <<made.tweet>> \o rest.tweets]
                               ELSE rest

\* parse_tweets: the text must be a JSON array (expect), then every record
ParseTweets(json) ==
    IF json.kind # "array" THEN [result |-> "panic", tweets |-> <<>>]
    ELSE ParseTweetsFrom(json.items, 1)

(***************************************************************************)
(* main.rs: load_tweets and the filters                                    *)
(***************************************************************************)
RECURSIVE TrimStartUntilBracket(_)
\* content.trim_start_matches(|c| c != '['): what is left is JSON only if
\* the first '[' is the one that opens the array
TrimStartUntilBracket(c) ==
    IF c.preamble = <<>> THEN c.json
    ELSE IF Head(c.preamble) = "[" THEN [kind |-> "garbage"]
    ELSE TrimStartUntilBracket([c EXCEPT !.preamble = Tail(@)])

\* NaiveDate::parse_from_str(&format!("{}-01", month), "%Y-%m-%d")
ParseMonthArg(month) ==
    IF month.m \in 1..12
    THEN [ok |-> TRUE, year |-> month.y, month |-> month.m, day |-> 1]
    ELSE [ok |-> FALSE]

\* NaiveDate::checked_add_months
CheckedAddMonths(date, n) ==
    LET total == date.year * 12 + (date.month - 1) + n
        y     == total \div 12
        m     == (total % 12) + 1
        dim   == DaysInMonth(y, m)
    IN  [ok |-> TRUE, year |-> y, month |-> m,
         day |-> IF date.day > dim THEN dim ELSE date.day]

\* NaiveDate into NaiveDateTime: midnight of the date
DateIntoDateTime(date) == NaiveFromCivil(date.year, date.month, date.day, 0, 0, 0)

\* filter_tweet_by_start_month, the month already parsed
FilterTweetByStartMonth(tws, start) ==
    SelectSeq(tws, LAMBDA tw : NaiveLocal(tw.created_at) >= DateIntoDateTime(start))

\* mutant: the first instant of the following month passes the end filter
FilterTweetByEndMonth_Inclusive(tws, end) ==
    LET next == CheckedAddMonths(end, 1)
    IN  SelectSeq(tws, LAMBDA tw : NaiveLocal(tw.created_at) <= DateIntoDateTime(next))

\* filter_tweet_by_end_month, the month already parsed
FilterTweetByEndMonth(tws, end) ==
    LET next == CheckedAddMonths(end, 1)
    IN  SelectSeq(tws, LAMBDA tw : NaiveLocal(tw.created_at) < DateIntoDateTime(next))

\* mutant: the key is taken from the UTC date, not from the local one
Yyyymm_Utc(dt) == NaiveFields(dt.utc).year * 100 + NaiveFields(dt.utc).month

\* main.rs:91
Yyyymm(dt) == DtYear(dt) * 100 + DtMonth(dt)

RECURSIVE GroupFrom(_, _, _)
\* the loop of main.rs:89-96 from tweet i on; a group holds references,
\* here the positions of its tweets in the vector
GroupFrom(tws, i, map) ==
    IF i > Len(tws) THEN map
    ELSE LET yyyymm == Yyyymm(tws[i].created_at)
         IN  GroupFrom(tws, i + 1,
                 IF yyyymm \in DOMAIN map
                 THEN [map EXCEPT ![yyyymm] = Append(@, i)]
                 ELSE [k \in DOMAIN map \cup {yyyymm} |->
                          IF k = yyyymm THEN <<i>> ELSE map[k]])

GroupByMonth(tws) == GroupFrom(tws, 1, [k \in {} |-> <<>>])

\* the slice of tweets a group refers to
Deref(tws, group) == [i \in 1..Len(group) |-> tws[group[i]]]

\* mutant: the file is named by the month alone
OutputFilePath_MonthOnly(yyyymm) ==
    <<"t", "w", "e", "e", "t", "s", "_">> \o Decimal(yyyymm % 100) \o <<".", "m", "d">>

\* main.rs:109, the output directory left out
OutputFilePath(yyyymm) ==
    <<"t", "w", "e", "e", "t", "s", "_">> \o Decimal(yyyymm) \o <<".", "m", "d">>

(***************************************************************************)
(* templates/mod.rs: Formatter                                             *)
(***************************************************************************)
Letters ==
    {"a", "b", "c", "d", "e", "f", "g", "h", "i", "j", "k", "l", "m",
     "n", "o", "p", "q", "r", "s", "t", "u", "v", "w", "x", "y", "z",
     "A", "B", "C", "D", "E", "F", "G", "H", "I", "J", "K", "L", "M",
     "N", "O", "P", "Q", "R", "S", "T", "U", "V", "W", "X", "Y", "Z"}

AsciiDigits == {DigitChars[i] : i \in 1..10}

\* [a-zA-Z0-9_]
HandleClass == Letters \cup AsciiDigits \cup {"_"}

\* \d is Unicode-aware in the regex crate: uFF11 is FULLWIDTH DIGIT ONE
DigitClass == AsciiDigits \cup {"uFF11"}

\* the class of re_hash_number: corner brackets, fullwidth parentheses,
\* lenticular brackets, colon, fullwidth colon, fullwidth and ASCII bar
PunctClass ==
    {"u300C", "u300D", "u300E", "u300F", "uFF08", "uFF09", "u3010", "u3011",
     ":", "uFF1A", "uFF5C", "|"}

RECURSIVE RunLen(_, _, _)
\* the length of the longest run of characters of a class from position i
RunLen(text, i, class) ==
    IF i > Len(text) \/ text[i] \notin class THEN 0
    ELSE 1 + RunLen(text, i + 1, class)

\* mutant: continuation lines are indented by one space
ReplaceNewline_OneSpace(text) ==
    LET Indent[i \in 0..Len(text)] ==
            IF i = 0 THEN <<>>
            ELSE Indent[i - 1] \o (IF text[i] = "\n" THEN <<"\n", " ">> ELSE <<text[i]>>)
    IN  Indent[Len(text)]

RECURSIVE ReplaceNewlineFrom(_, _)
ReplaceNewlineFrom(text, i) ==
    IF i > Len(text) THEN <<>>
    ELSE IF text[i] = "\n"
         THEN <<"\n", " ", " ">> \o ReplaceNewlineFrom(text, i + 1)
         ELSE <<text[i]>> \o ReplaceNewlineFrom(text, i + 1)

\* mod.rs:19  text.replace("\n", "\n  ")
ReplaceNewline(text) == ReplaceNewlineFrom(text, 1)

RECURSIVE ReplaceAccountFrom(_, _)
ReplaceAccountFrom(text, i) ==
    IF i > Len(text) THEN <<>>
    ELSE LET n == RunLen(text, i + 1, HandleClass)
         IN  IF text[i] = "@" /\ n > 0
             THEN <<"[", "[", "@">> \o SubSeq(text, i + 1, i + n) \o <<"]", "]">>
                  \o ReplaceAccountFrom(text, i + n + 1)
             ELSE <<text[i]>> \o ReplaceAccountFrom(text, i + 1)

\* mod.rs:20  re_account.replace_all(text, "[[@$1]]")
ReplaceAccount(text) == ReplaceAccountFrom(text, 1)

RECURSIVE ReplaceHashNumberFrom(_, _)
ReplaceHashNumberFrom(text, i) ==
    IF i > Len(text) THEN <<>>
    ELSE LET d == RunLen(text, i + 1, DigitClass)
             p == RunLen(text, i + 1 + d, PunctClass)
         IN  IF text[i] = "#" /\ d > 0 /\ p > 0
             THEN <<"#">> \o SubSeq(text, i + 1, i + d) \o <<" ">>
                  \o SubSeq(text, i + d + 1, i + d + p)
                  \o ReplaceHashNumberFrom(text, i + d + p + 1)
             ELSE <<text[i]>> \o ReplaceHashNumberFrom(text, i + 1)

\* mod.rs:21-24  re_hash_number.replace_all(text, "#$1 $2")
ReplaceHashNumber(text) == ReplaceHashNumberFrom(text, 1)

RECURSIVE ReplaceHashUrlFrom(_, _)
ReplaceHashUrlFrom(text, i) ==
    IF i > Len(text) THEN <<>>
    ELSE LET d == RunLen(text, i + 1, DigitClass)
         IN  IF /\ text[i] = "#" /\ d > 0 /\ i + d + 4 <= Len(text)
                /\ SubSeq(text, i + d + 1, i + d + 4) = <<"h", "t", "t", "p">>
             THEN <<"#">> \o SubSeq(text, i + 1, i + d) \o <<" ", "h", "t", "t", "p">>
                  \o ReplaceHashUrlFrom(text, i + d + 5)
             ELSE <<text[i]>> \o ReplaceHashUrlFrom(text, i + 1)

\* mod.rs:25  re_hash_url.replace_all(text, "#$1 http")
ReplaceHashUrl(text) == ReplaceHashUrlFrom(text, 1)

\* Formatter::format_text
FormatText(text) ==
    ReplaceHashUrl(ReplaceHashNumber(ReplaceAccount(ReplaceNewline(text))))

(***************************************************************************)
(* templates/monthly_tweets.rs: MonthlyTweetsTemplateInput                 *)
(***************************************************************************)
\* the closure of format_tweets
FormattedTweet(tw) ==
    [created_at |-> FormatDateTime(tw.created_at), text |-> FormatText(tw.full_text)]

RECURSIVE InsertStable_BeforeEqual(_, _)
\* mutant: x put before the elements that are equal to it (an unstable sort)
InsertStable_BeforeEqual(sorted, x) ==
    IF sorted = <<>> THEN <<x>>
    ELSE IF StrCmp(sorted[Len(sorted)].created_at, x.created_at) \in {"Greater", "Equal"}
         THEN Append(InsertStable_BeforeEqual(SubSeq(sorted, 1, Len(sorted) - 1), x),
                     sorted[Len(sorted)])
         ELSE Append(sorted, x)

RECURSIVE InsertStable(_, _)
\* x put behind every element of a sorted sequence that is not greater
InsertStable(sorted, x) ==
    IF sorted = <<>> THEN <<x>>
    ELSE IF StrCmp(sorted[Len(sorted)].created_at, x.created_at) = "Greater"
         THEN Append(InsertStable(SubSeq(sorted, 1, Len(sorted) - 1), x),
                     sorted[Len(sorted)])
         ELSE Append(sorted, x)

RECURSIVE SortByCreatedAt(_)
\* sort_by(|a, b| a.created_at.cmp(&b.created_at)), a stable sort
SortByCreatedAt(s) ==
    IF s = <<>> THEN <<>>
    ELSE InsertStable(SortByCreatedAt(SubSeq(s, 1, Len(s) - 1)), s[Len(s)])

\* format_tweets
FormatTweets(tws) ==
    SortByCreatedAt([i \in 1..Len(tws) |-> FormattedTweet(tws[i])])

RECURSIVE MinByCreatedAt(_, _, _)
\* Iterator::min_by from element i on: of equal elements the first stays
MinByCreatedAt(tws, i, best) ==
    IF i > Len(tws) THEN best
    ELSE MinByCreatedAt(tws, i + 1,
             IF DtCmp(best.created_at, tws[i].created_at) = "Greater"
             THEN tws[i] ELSE best)

\* extract_earliest_tweet_created_at of a non-empty slice
ExtractEarliestTweetCreatedAt(tws) == MinByCreatedAt(tws, 2, tws[1]).created_at

\* format_id: "%Y%m%d%H%M%S%3f"; an archive timestamp has whole seconds
FormatId(dt) ==
    LET f == NaiveFields(NaiveLocal(dt))
    IN  ZeroPad(f.year, 4) \o ZeroPad(f.month, 2) \o ZeroPad(f.day, 2)
        \o ZeroPad(f.hour, 2) \o ZeroPad(f.minute, 2) \o ZeroPad(f.second, 2)
        \o ZeroPad(0, 3)

\* format_file_created_at
FormatFileCreatedAt(dt) == FormatDateTime(dt)

\* TweetCountByHour::new
TweetCountByHourNew(hour) ==
    [hour |-> hour, tweet_count |-> 0, retweet_count |-> 0, reply_count |-> 0]

\* mutant: a retweet is not counted as a reply (else if for if)
CountTweet_ElseIf(by_hour, tw) ==
    LET hour == DtHour(tw.created_at)
    IN  [by_hour EXCEPT
            ![hour + 1].tweet_count   = @ + 1,
            ![hour + 1].retweet_count = IF IsRetweet(tw) THEN @ + 1 ELSE @,
            ![hour + 1].reply_count   = IF ~IsRetweet(tw) /\ tw.is_reply THEN @ + 1 ELSE @]

\* one pass of the loop of generate_activity_stats
CountTweet(by_hour, tw) ==
    LET hour == DtHour(tw.created_at)
    IN  [by_hour EXCEPT
            ![hour + 1].tweet_count   = @ + 1,
            ![hour + 1].retweet_count = IF IsRetweet(tw) THEN @ + 1 ELSE @,
            ![hour + 1].reply_count   = IF tw.is_reply THEN @ + 1 ELSE @]

RECURSIVE CountByHourFrom(_, _, _)
CountByHourFrom(tws, i, by_hour) ==
    IF i > Len(tws) THEN by_hour
    ELSE CountByHourFrom(tws, i + 1, CountTweet(by_hour, tws[i]))

\* generate_activity_stats
GenerateActivityStats(tws) ==
    [tweet_count   |-> Len(tws),
     retweet_count |-> Len(SelectSeq(tws, IsRetweet)),
     reply_count   |-> Len(SelectSeq(tws, LAMBDA tw : tw.is_reply)),
     tweet_count_by_hour |->
         CountByHourFrom(tws, 1, [i \in 1..24 |-> TweetCountByHourNew(i - 1)])]

\* MonthlyTweetsTemplateInput::new: unwrap panics on an empty slice
MonthlyTweetsTemplateInputNew(tws) ==
    IF tws = <<>> THEN [result |-> "panic"]
    ELSE LET earliest == ExtractEarliestTweetCreatedAt(tws)
         IN  [result |-> "ok",
              data |-> [id |-> FormatId(earliest),
                        file_created_at |-> FormatFileCreatedAt(earliest),
                        month |-> ZeroPad(DtMonth(earliest), 2),
                        year |-> Decimal(DtYear(earliest)),
                        stats |-> GenerateActivityStats(tws),
                        tweets |-> FormatTweets(tws)]]

(***************************************************************************)
(* main.rs: main, one action per stage.  A stage that ends the process     *)
(* (process::exit, a panic, an Err returned by main) moves to "exit".      *)
(***************************************************************************)
\* the message of a warn!/error!/info! call
Message(level, what, about) == [level |-> level, what |-> what, about |-> about]

\* the process ends before main returns Ok
Exit(reason) ==
    /\ pc' = "exit"
    /\ exit_reason' = reason

\* load_tweets behind File::open and read_to_string
LoadTweets(c) == ParseTweets(TrimStartUntilBracket(c))

\* main.rs:74 with load_tweets: the file cannot be opened (exit(1)), cannot
\* be read (Err), or its content is parsed
Load ==
    /\ pc = "load"
    /\ \E io \in {"ok", "open_fails", "read_fails"} :
          IF io = "open_fails"
          THEN /\ Exit("open")
               /\ log' = log \cup {Message("error", "open", <<>>)}
               /\ UNCHANGED <<loaded, stages>>
          ELSE IF io = "read_fails"
          THEN /\ Exit("read")
               /\ UNCHANGED <<loaded, stages, log>>
          ELSE LET r == LoadTweets(content)
               IN  IF r.result = "ok"
                   THEN /\ loaded' = r.tweets
                        /\ stages' = Append(stages, "load")
                        /\ pc' = "filter_start"
                        /\ UNCHANGED <<exit_reason, log>>
                   ELSE /\ Exit(IF r.result = "panic" THEN "parse_panic"
                                                     ELSE "parse_err")
                        /\ UNCHANGED <<loaded, stages, log>>
    /\ UNCHANGED <<tz, content, start_month, end_month, unwritable, render_fails,
                   from_start, tweets, tweets_by_yyyymm, remaining, processed,
                   created, files, notes, st_tweets, st_stats, fmt_text, fmt_out>>

\* main.rs:76-79
FilterStart ==
    /\ pc = "filter_start"
    /\ IF ~start_month.some
       THEN /\ from_start' = loaded
            /\ stages' = Append(stages, "filter_start")
            /\ pc' = "filter_end"
            /\ UNCHANGED exit_reason
       ELSE LET parsed == ParseMonthArg(start_month.val)
            IN  IF parsed.ok
                THEN /\ from_start' = FilterTweetByStartMonth(loaded, parsed)
                     /\ stages' = Append(stages, "filter_start")
                     /\ pc' = "filter_end"
                     /\ UNCHANGED exit_reason
                ELSE /\ Exit("start_month_panic")
                     /\ UNCHANGED <<from_start, stages>>
    /\ UNCHANGED <<tz, content, start_month, end_month, unwritable, render_fails,
                   loaded, tweets, tweets_by_yyyymm, remaining, processed,
                   created, files, notes, log, st_tweets, st_stats, fmt_text,
                   fmt_out>>

\* main.rs:81-84
FilterEnd ==
    /\ pc = "filter_end"
    /\ IF ~end_month.some
       THEN /\ tweets' = from_start
            /\ stages' = Append(stages, "filter_end")
            /\ pc' = "group"
            /\ UNCHANGED exit_reason
       ELSE LET parsed == ParseMonthArg(end_month.val)
            IN  IF parsed.ok
                THEN /\ tweets' = FilterTweetByEndMonth(from_start, parsed)
                     /\ stages' = Append(stages, "filter_end")
                     /\ pc' = "group"
                     /\ UNCHANGED exit_reason
                ELSE /\ Exit("end_month_panic")
                     /\ UNCHANGED <<tweets, stages>>
    /\ UNCHANGED <<tz, content, start_month, end_month, unwritable, render_fails,
                   loaded, from_start, tweets_by_yyyymm, remaining, processed,
                   created, files, notes, log, st_tweets, st_stats, fmt_text,
                   fmt_out>>

\* main.rs:88-96
Group ==
    /\ pc = "group"
    /\ tweets_by_yyyymm' = GroupByMonth(tweets)
    /\ remaining' = DOMAIN tweets_by_yyyymm'
    /\ processed' = [k \in DOMAIN tweets_by_yyyymm' |-> 0]
    /\ stages' = Append(stages, "group")
    /\ pc' = "template"
    /\ UNCHANGED <<exit_reason, tz, content, start_month, end_month, unwritable,
                   render_fails, loaded, from_start, tweets, created, files,
                   notes, log, st_tweets, st_stats, fmt_text, fmt_out>>

\* mutant: a template that does not register is logged and main goes on
RegisterTemplate_GoesOn ==
    /\ pc = "template"
    /\ \E registered \in BOOLEAN :
          /\ pc' = "loop"
          /\ stages' = IF registered THEN Append(stages, "template") ELSE stages
          /\ log' = IF registered THEN log
                    ELSE log \cup {Message("error", "template", <<>>)}
          /\ UNCHANGED exit_reason
    /\ UNCHANGED <<tz, content, start_month, end_month, unwritable, render_fails,
                   loaded, from_start, tweets, tweets_by_yyyymm, remaining,
                   processed, created, files, notes, st_tweets, st_stats,
                   fmt_text, fmt_out>>

\* main.rs:98 with MonthlyTweetsTemplate::new: the template file registers,
\* or the process exits
RegisterTemplate ==
    /\ pc = "template"
    /\ \E registered \in BOOLEAN :
          IF registered
          THEN /\ stages' = Append(stages, "template")
               /\ pc' = "loop"
               /\ UNCHANGED <<exit_reason, log>>
          ELSE /\ Exit("template")
               /\ log' = log \cup {Message("error", "template", <<>>)}
               /\ UNCHANGED stages
    /\ UNCHANGED <<tz, content, start_month, end_month, unwritable, render_fails,
                   loaded, from_start, tweets, tweets_by_yyyymm, remaining,
                   processed, created, files, notes, st_tweets, st_stats,
                   fmt_text, fmt_out>>

\* one more File::create on a path
CountCreate(path) ==
    [p \in DOMAIN created \cup {path} |->
        (IF p \in DOMAIN created THEN created[p] ELSE 0) + (IF p = path THEN 1 ELSE 0)]

\* f with x mapped to v
Put(f, x, v) == [y \in DOMAIN f \cup {x} |-> IF y = x THEN v ELSE f[y]]

\* mutant: a month that fails ends the loop (break for continue)
ProcessMonth_Break ==
    /\ pc = "loop"
    /\ \E yyyymm \in remaining :
          LET made == MonthlyTweetsTemplateInputNew(Deref(tweets, tweets_by_yyyymm[yyyymm]))
              output_file_path == OutputFilePath(yyyymm)
          IN  IF made.result = "panic"
              THEN /\ Exit("input_panic")
                   /\ UNCHANGED <<remaining, processed, created, files, notes, log>>
              ELSE /\ remaining' = IF \/ output_file_path \in unwritable
                                      \/ yyyymm \in render_fails
                                   THEN {} ELSE remaining \ {yyyymm}
                   /\ processed' = [processed EXCEPT ![yyyymm] = @ + 1]
                   /\ notes' = Put(notes, yyyymm, made.data)
                   /\ created' = CountCreate(output_file_path)
                   /\ UNCHANGED <<pc, exit_reason>>
                   /\ IF output_file_path \in unwritable
                      THEN /\ log' = log \cup {Message("warn", "create", output_file_path)}
                           /\ UNCHANGED files
                      ELSE IF yyyymm \in render_fails
                      THEN /\ files' = Put(files, output_file_path, "partial")
                           /\ log' = log \cup {Message("warn", "render", Decimal(yyyymm))}
                      ELSE /\ files' = Put(files, output_file_path, "rendered")
                           /\ log' = log \cup {Message("info", "saved", output_file_path)}
    /\ UNCHANGED <<tz, content, start_month, end_month, unwritable, render_fails,
                   loaded, from_start, tweets, tweets_by_yyyymm, stages,
                   st_tweets, st_stats, fmt_text, fmt_out>>

\* main.rs:100-125: one pass of the loop, on any entry of the HashMap not
\* visited yet (the iteration order of a HashMap is arbitrary)
ProcessMonth ==
    /\ pc = "loop"
    /\ \E yyyymm \in remaining :
          LET made == MonthlyTweetsTemplateInputNew(Deref(tweets, tweets_by_yyyymm[yyyymm]))
              output_file_path == OutputFilePath(yyyymm)
          IN  IF made.result = "panic"
              THEN /\ Exit("input_panic")
                   /\ UNCHANGED <<remaining, processed, created, files, notes, log>>
              ELSE /\ remaining' = remaining \ {yyyymm}
                   /\ processed' = [processed EXCEPT ![yyyymm] = @ + 1]
                   /\ notes' = Put(notes, yyyymm, made.data)
                   /\ created' = CountCreate(output_file_path)
                   /\ UNCHANGED <<pc, exit_reason>>
                   /\ IF output_file_path \in unwritable
                      THEN /\ log' = log \cup {Message("warn", "create", output_file_path)}
                           /\ UNCHANGED files
                      ELSE IF yyyymm \in render_fails
                      THEN /\ files' = Put(files, output_file_path, "partial")
                           /\ log' = log \cup {Message("warn", "render", Decimal(yyyymm))}
                      ELSE /\ files' = Put(files, output_file_path, "rendered")
                           /\ log' = log \cup {Message("info", "saved", output_file_path)}
    /\ UNCHANGED <<tz, content, start_month, end_month, unwritable, render_fails,
                   loaded, from_start, tweets, tweets_by_yyyymm, stages,
                   st_tweets, st_stats, fmt_text, fmt_out>>

\* main.rs:127: the loop is over, main returns Ok(())
Finish ==
    /\ pc = "loop"
    /\ remaining = {}
    /\ pc' = "done"
    /\ UNCHANGED <<exit_reason, tz, content, start_month, end_month, unwritable,
                   render_fails, loaded, from_start, tweets, tweets_by_yyyymm,
                   remaining, processed, created, files, notes, log, stages,
                   st_tweets, st_stats, fmt_text, fmt_out>>

Next ==
    \/ Load
    \/ FilterStart
    \/ FilterEnd
    \/ Group
    \/ RegisterTemplate
    \/ ProcessMonth
    \/ Finish

(***************************************************************************)
(* The inputs: archives, arguments and the state of the file system.       *)
(***************************************************************************)
\* a created_at string by its fields
Timestamp(wd, mon, day, hh, mi, ss, neg, off_hh, year) ==
    [wd |-> wd, mon |-> mon, day |-> day, hh |-> hh, mi |-> mi, ss |-> ss,
     off |-> [neg |-> neg, hh |-> off_hh, mm |-> 0], year |-> year]

\* the last second of November and the first instant of December in New York
NovLastSecond   == Timestamp("Thu", "Nov", 30, 23, 59, 59, TRUE, 5, 2023)
DecFirstInstant == Timestamp("Fri", "Dec", 1, 0, 0, 0, TRUE, 5, 2023)
\* the last second of December and the first instant of January in New York
DecLastSecond   == Timestamp("Sun", "Dec", 31, 23, 59, 59, TRUE, 5, 2023)
JanFirstInstant == Timestamp("Mon", "Jan", 1, 0, 0, 0, TRUE, 5, 2024)
\* 01:30 daylight time and, forty minutes later, 01:10 standard time of the
\* night New York set its clocks back
BeforeFallBack  == Timestamp("Sun", "Nov", 5, 5, 30, 0, FALSE, 0, 2023)
AfterFallBack   == Timestamp("Sun", "Nov", 5, 6, 10, 0, FALSE, 0, 2023)
\* no such day
FebThirtieth    == Timestamp("Thu", "Feb", 30, 12, 0, 0, FALSE, 0, 2023)

PlainText   == <<"a">>
RetweetText == <<"R", "T", " ", "@", "a">>
MentionText == <<"@", "a", "\n", "#", "1", ":">>

JString(v) == [kind |-> "string", val |-> v]
JNull      == [kind |-> "null"]
JAbsent    == [kind |-> "absent"]
JNumber    == [kind |-> "number"]

\* the "tweet" object of one record of the archive
Record(created_at, full_text, in_reply_to_user_id) ==
    [created_at |-> created_at, full_text |-> full_text,
     in_reply_to_user_id |-> in_reply_to_user_id]

\* records of three months in either zone
MonthRecords ==
    {Record(JString(BeforeFallBack), JString(PlainText), JNull),
     Record(JString(DecFirstInstant), JString(RetweetText), JString(<<"1">>)),
     Record(JString(JanFirstInstant), JString(MentionText), JAbsent)}

\* records at the month boundaries and around the clock change, two of them
\* with the same timestamp
TimeRecords ==
    MonthRecords \cup
    {Record(JString(NovLastSecond), JString(PlainText), JNull),
     Record(JString(DecLastSecond), JString(PlainText), JNull),
     Record(JString(AfterFallBack), JString(RetweetText), JNull),
     Record(JString(AfterFallBack), JString(MentionText), JString(<<"1">>))}

\* records parse_tweets cannot take
BadRecords ==
    {Record(JAbsent, JString(PlainText), JNull),
     Record(JString(DecFirstInstant), JNumber, JNull),
     Record(JString(FebThirtieth), JString(PlainText), JNull)}

SeqsUpTo(S, n) == UNION {[1..k -> S] : k \in 0..n}

\* the export's assignment before the array
Preamble == <<"w", "=">>

Archive(preamble, items) ==
    [preamble |-> preamble, json |-> [kind |-> "array", items |-> items]]

NoMonth == [some |-> FALSE]
SomeMonth(y, m) == [some |-> TRUE, val |-> [y |-> y, m |-> m]]

\* the state main starts in
Start ==
    /\ pc = "load"
    /\ exit_reason = ""
    /\ loaded = <<>>
    /\ from_start = <<>>
    /\ tweets = <<>>
    /\ tweets_by_yyyymm = [k \in {} |-> <<>>]
    /\ remaining = {}
    /\ processed = [k \in {} |-> 0]
    /\ created = [p \in {} |-> 0]
    /\ files = [p \in {} |-> ""]
    /\ notes = [k \in {} |-> <<>>]
    /\ log = {}
    /\ stages = <<>>

\* the variables of the two harnesses, idle
NoHarness ==
    /\ st_tweets = <<>>
    /\ st_stats = [done |-> FALSE]
    /\ fmt_text = <<>>
    /\ fmt_out = [done |-> FALSE]

\* archives with records that do not parse, files that are not an archive,
\* month arguments that do not parse
InitFaults ==
    /\ tz = AsiaTokyo
    /\ content \in
         {Archive(Preamble, items) :
             items \in SeqsUpTo(MonthRecords \cup BadRecords, MaxTweets)}
         \cup {Archive(<<>>, <<>>),
               Archive(<<"w", "[", "0", "]", "=">>, <<>>),
               [preamble |-> Preamble, json |-> [kind |-> "garbage"]]}
    /\ start_month \in {NoMonth, SomeMonth(2023, 12), SomeMonth(2023, 13)}
    /\ end_month \in {NoMonth, SomeMonth(2023, 12), SomeMonth(2023, 0)}
    /\ unwritable = {}
    /\ render_fails = {}

\* months whose output file cannot be created or whose render fails
InitLoop ==
    /\ tz = AsiaTokyo
    /\ content \in {Archive(Preamble, items) : items \in SeqsUpTo(MonthRecords, MaxTweets)}
    /\ start_month = NoMonth
    /\ end_month = NoMonth
    /\ unwritable \in SUBSET {OutputFilePath(k) : k \in {202311, 202312, 202401}}
    /\ render_fails \in SUBSET {k \in {202311, 202312, 202401} :
                                   OutputFilePath(k) \notin unwritable}

\* posts at the month boundaries and around the clock change of a zone with
\* daylight time (the other families run in a zone without)
InitTimes ==
    /\ tz = AmericaNewYork
    /\ content \in {Archive(Preamble, items) : items \in SeqsUpTo(TimeRecords, MaxTweets)}
    /\ start_month \in {NoMonth, SomeMonth(2023, 12)}
    /\ end_month \in {NoMonth, SomeMonth(2023, 12)}
    /\ unwritable = {}
    /\ render_fails = {}

Init ==
    /\ Start
    /\ NoHarness
    /\ \/ InitFaults
       \/ InitLoop
       \/ InitTimes

Spec == Init /\ [][Next]_vars

(***************************************************************************)
(* generate_activity_stats on its own, as test_generate_activity_stats     *)
(* calls it: on a slice of tweets made by new_with_local_datetime, the     *)
(* empty slice included.                                                   *)
(***************************************************************************)
\* main is not running
Idle(at) ==
    /\ pc = at
    /\ exit_reason = ""
    /\ content = Archive(<<>>, <<>>)
    /\ start_month = NoMonth
    /\ end_month = NoMonth
    /\ unwritable = {}
    /\ render_fails = {}
    /\ loaded = <<>>
    /\ from_start = <<>>
    /\ tweets = <<>>
    /\ tweets_by_yyyymm = [k \in {} |-> <<>>]
    /\ remaining = {}
    /\ processed = [k \in {} |-> 0]
    /\ created = [p \in {} |-> 0]
    /\ files = [p \in {} |-> ""]
    /\ notes = [k \in {} |-> <<>>]
    /\ log = {}
    /\ stages = <<>>

InitStats ==
    /\ Idle("test_stats")
    /\ NoHarness
    /\ tz \in Zones

\* one more tweet of the slice: the days and hours of the test, any text,
\* reply or not
TestAddTweet ==
    /\ pc = "test_stats"
    /\ ~st_stats.done
    /\ Len(st_tweets) < MaxStatsTweets
    /\ \E at \in {<<15, 0>>, <<12, 2>>, <<14, 23>>},
          full_text \in {PlainText, RetweetText},
          is_reply \in BOOLEAN :
          \E created_at \in LocalWithYmdAndHms(2023, 3, at[1], at[2], 12, 48) :
             st_tweets' = Append(st_tweets,
                 TweetNewWithLocalDatetime(created_at, full_text, is_reply))
    /\ UNCHANGED <<pipeline_vars, tz, st_stats, fmt_text, fmt_out>>

TestGenerateActivityStats ==
    /\ pc = "test_stats"
    /\ ~st_stats.done
    /\ st_stats' = [done |-> TRUE, stats |-> GenerateActivityStats(st_tweets)]
    /\ UNCHANGED <<pipeline_vars, tz, st_tweets, fmt_text, fmt_out>>

NextStats ==
    \/ TestAddTweet
    \/ TestGenerateActivityStats

SpecStats == InitStats /\ [][NextStats]_vars

(***************************************************************************)
(* format_text on its own, on texts put together from fragments.           *)
(***************************************************************************)
Fragments ==
    {<<"@">>, <<"@", "a">>, <<"#">>, <<"#", "1">>, <<"1">>, <<":">>, <<"u300D">>,
     <<"h", "t", "t", "p">>, <<"\n">>}

RECURSIVE Flatten(_)
\* the text a sequence of fragments spells
Flatten(fragments) ==
    IF fragments = <<>> THEN <<>>
    ELSE Head(fragments) \o Flatten(Tail(fragments))

InitFormat ==
    /\ Idle("test_format")
    /\ NoHarness
    /\ tz = AsiaTokyo

TypeFragment ==
    /\ pc = "test_format"
    /\ ~fmt_out.done
    /\ Len(fmt_text) < MaxFragments
    /\ \E f \in Fragments : fmt_text' = Append(fmt_text, f)
    /\ UNCHANGED <<pipeline_vars, tz, st_tweets, st_stats, fmt_out>>

TestFormatText ==
    /\ pc = "test_format"
    /\ ~fmt_out.done
    /\ fmt_out' = [done |-> TRUE, text |-> FormatText(Flatten(fmt_text))]
    /\ UNCHANGED <<pipeline_vars, tz, st_tweets, st_stats, fmt_text>>

NextFormat ==
    \/ TypeFragment
    \/ TestFormatText

SpecFormat == InitFormat /\ [][NextFormat]_vars

(***************************************************************************)
(* The properties.  What follows states what the program is to do, in      *)
(* terms of the inputs and of the local calendar fields of a post.         *)
(***************************************************************************)
Range(f) == {f[x] : x \in DOMAIN f}

\* how many elements of a sequence satisfy a predicate
CountIf(s, P(_)) == Cardinality({i \in DOMAIN s : P(s[i])})

\* the stage has completed
Completed(stage) == stage \in Range(stages)

\* the local calendar fields of a post
LocalFields(tw) == NaiveFields(tw.created_at.utc + tw.created_at.offset)

\* year*100+month of a post's local created_at
MonthKey(tw) == LocalFields(tw).year * 100 + LocalFields(tw).month

\* the places (group, position) a post of the vector is filed at
PlacesOf(i) ==
    {<<k, j>> \in UNION {{k} \X DOMAIN tweets_by_yyyymm[k] : k \in DOMAIN tweets_by_yyyymm} :
        tweets_by_yyyymm[k][j] = i}

\* C1: once the posts are grouped, every filtered post is in exactly one
\* group at exactly one place, the key of its group is year*100+month of its
\* local created_at, no group is empty, and the groups hold nothing but the
\* filtered posts (so their union is the input, post for post).
GroupingIsPartition ==
    Completed("group") =>
        /\ \A i \in DOMAIN tweets : Cardinality(PlacesOf(i)) = 1
        /\ \A k \in DOMAIN tweets_by_yyyymm :
              /\ tweets_by_yyyymm[k] # <<>>
              /\ \A j \in DOMAIN tweets_by_yyyymm[k] :
                    /\ tweets_by_yyyymm[k][j] \in DOMAIN tweets
                    /\ MonthKey(tweets[tweets_by_yyyymm[k][j]]) = k

\* C1 witness: three posts were grouped into two groups, one of two posts
GroupingWitness ==
    /\ Completed("group")
    /\ Len(tweets) = 3
    /\ Cardinality(DOMAIN tweets_by_yyyymm) = 2
    /\ \E k \in DOMAIN tweets_by_yyyymm : Len(tweets_by_yyyymm[k]) = 2

\* the month after a month, as a pair
FollowingMonth(y, m) == IF m = 12 THEN <<y + 1, 1>> ELSE <<y, m + 1>>

\* a post's local time is at or after the first instant of month y-m
AtOrAfterMonth(tw, y, m) ==
    LET f == LocalFields(tw)
    IN  f.year > y \/ (f.year = y /\ f.month >= m)

\* C3: the start filter keeps, in order, exactly the posts at or after the
\* first instant of start_month; the end filter keeps, in order, exactly the
\* posts strictly before the first instant of the month following end_month
\* (January of the next year after December); a filter not given keeps all.
FiltersAreInclusive ==
    /\ Completed("filter_start") =>
          from_start =
             IF start_month.some
             THEN SelectSeq(loaded, LAMBDA tw :
                      AtOrAfterMonth(tw, start_month.val.y, start_month.val.m))
             ELSE loaded
    /\ Completed("filter_end") =>
          tweets =
             IF end_month.some
             THEN LET next == FollowingMonth(end_month.val.y, end_month.val.m)
                  IN  SelectSeq(from_start, LAMBDA tw :
                          ~AtOrAfterMonth(tw, next[1], next[2]))
             ELSE from_start

\* midnight of the first day of a month on a post's local clock
IsFirstInstantOf(tw, y, m) ==
    LocalFields(tw) = [year |-> y, month |-> m, day |-> 1,
                       hour |-> 0, minute |-> 0, second |-> 0]

\* C3 witness: with December 2023 as start and end month, the post of the
\* first instant of December was kept by both filters, the post of the last
\* second of November was dropped by the first, the post of the first instant
\* of January 2024 by the second
FiltersWitness ==
    /\ Completed("filter_end")
    /\ start_month = SomeMonth(2023, 12)
    /\ end_month = SomeMonth(2023, 12)
    /\ Len(loaded) = 3 /\ Len(from_start) = 2 /\ Len(tweets) = 1
    /\ IsFirstInstantOf(tweets[1], 2023, 12)
    /\ \E i \in DOMAIN from_start : IsFirstInstantOf(from_start[i], 2024, 1)
    /\ \E i \in DOMAIN loaded : LocalFields(loaded[i]).month = 11

\* the path the note of a year and month is to be written to
PathOfMonth(y, m) ==
    <<"t", "w", "e", "e", "t", "s", "_">> \o ZeroPad(y, 4) \o ZeroPad(m, 2)
    \o <<".", "m", "d">>

\* the (year, month) pairs occurring among the filtered posts
MonthPairs == {<<LocalFields(tw).year, LocalFields(tw).month>> : tw \in Range(tweets)}

\* C6: no path is ever created twice; when main has returned, File::create
\* was called exactly once on the path of every (year, month) pair occurring
\* among the filtered posts and on no other path; the paths of distinct
\* pairs are distinct; and with no filtered post there is no group and no
\* file.
OneFilePerMonth ==
    /\ \A path \in DOMAIN created : created[path] = 1
    /\ pc = "done" =>
          /\ DOMAIN created = {PathOfMonth(p[1], p[2]) : p \in MonthPairs}
          /\ Cardinality(DOMAIN created) = Cardinality(MonthPairs)
          /\ Cardinality(DOMAIN tweets_by_yyyymm) = Cardinality(MonthPairs)
          /\ tweets = <<>> =>
                DOMAIN tweets_by_yyyymm = {} /\ DOMAIN created = {} /\ DOMAIN files = {}

\* C6 witness: main returned after three filtered posts of two months, with
\* two paths created
OneFilePerMonthWitness ==
    /\ pc = "done"
    /\ Len(tweets) = 3
    /\ Cardinality(MonthPairs) = 2
    /\ Cardinality(DOMAIN created) = 2

\* the loop body warned about the month or its file
Warned(what, about) == Message("warn", what, about) \in log

\* C4: once the template is registered nothing ends the process early, and
\* when main has returned the loop body has run exactly once for every month
\* group; a month whose file could not be created has a warning naming the
\* file and no file, a month whose render failed has a warning naming the
\* month, and every other month has its note rendered and written, with no
\* warning about it.
MonthsAreIndependent ==
    /\ Completed("template") => pc \in {"loop", "done"}
    /\ pc = "done" =>
          \A k \in DOMAIN tweets_by_yyyymm :
             LET path == OutputFilePath(k)
             IN  /\ processed[k] = 1
                 /\ IF path \in unwritable
                    THEN Warned("create", path) /\ path \notin DOMAIN files
                    ELSE IF k \in render_fails
                    THEN Warned("render", Decimal(k))
                    ELSE /\ path \in DOMAIN files
                         /\ files[path] = "rendered"
                         /\ ~Warned("create", path)
                         /\ ~Warned("render", Decimal(k))

\* C4 witness: main returned after three months, one whose file could not be
\* created, one whose render failed, one written
MonthsWitness ==
    /\ pc = "done"
    /\ Cardinality(DOMAIN tweets_by_yyyymm) = 3
    /\ \E k \in DOMAIN tweets_by_yyyymm : OutputFilePath(k) \in unwritable
    /\ \E k \in DOMAIN tweets_by_yyyymm :
          OutputFilePath(k) \notin unwritable /\ k \in render_fails
    /\ \E path \in DOMAIN files : files[path] = "rendered"

\* the record has a string timestamp in the fixed format and a string body
RecordParses(r) ==
    /\ r.created_at.kind = "string"
    /\ r.full_text.kind = "string"
    /\ ParseTwitterDate(r.created_at.val).ok

\* the archive file holds a JSON array behind a preamble without a bracket
IsArchive == content.json.kind = "array" /\ "[" \notin Range(content.preamble)

\* something in the inputs is fatal: the archive, a record, a month bound
FatalInput ==
    \/ ~IsArchive
    \/ \E i \in DOMAIN content.json.items : ~RecordParses(content.json.items[i])
    \/ start_month.some /\ start_month.val.m \notin 1..12
    \/ end_month.some /\ end_month.val.m \notin 1..12

\* C5: File::create is called only after loading, both filters, grouping
\* and template registration completed, in this order; a process that ended
\* early (file unreadable, archive or record not parseable, month bound not
\* parseable, template not registered) has created no file; and with a fatal
\* input main never gets as far as grouping.
FatalBeforeAnyOutput ==
    /\ DOMAIN created # {} =>
          stages = <<"load", "filter_start", "filter_end", "group", "template">>
    /\ pc = "exit" => DOMAIN created = {} /\ DOMAIN files = {}
    /\ FatalInput =>
          /\ pc \in {"load", "filter_start", "filter_end", "exit"}
          /\ DOMAIN created = {}

\* C5 witness: the process ended at template registration, with groups
\* waiting and no file created
FatalWitness ==
    /\ pc = "exit"
    /\ exit_reason = "template"
    /\ DOMAIN tweets_by_yyyymm # {}
    /\ DOMAIN created = {}

\* C8: of a JSON array, either every record parses and the posts loaded are
\* as many as the records, in their order, each with the record's instant
\* and body and with is_reply true iff in_reply_to_user_id is present and not
\* null; or some record does not parse, the load never completes and no post
\* reaches a later stage.
ParseIsAllOrNothing ==
    IsArchive =>
        LET items == content.json.items
        IN  /\ Completed("load") =>
                  /\ \A i \in DOMAIN items : RecordParses(items[i])
                  /\ Len(loaded) = Len(items)
                  /\ \A i \in DOMAIN items :
                        /\ loaded[i].created_at.utc = ParseTwitterDate(items[i].created_at.val).utc
                        /\ loaded[i].full_text = items[i].full_text.val
                        /\ loaded[i].is_reply =
                              (items[i].in_reply_to_user_id.kind \notin {"absent", "null"})
            /\ (\E i \in DOMAIN items : ~RecordParses(items[i])) =>
                  /\ ~Completed("load")
                  /\ pc \in {"load", "exit"}
                  /\ loaded = <<>> /\ from_start = <<>> /\ tweets = <<>>
                  /\ DOMAIN tweets_by_yyyymm = {}
            /\ (\A i \in DOMAIN items : RecordParses(items[i])) =>
                  exit_reason \notin {"parse_panic", "parse_err"}

\* C8 witness: three records were loaded, one a reply, one with a null and
\* one with no in_reply_to_user_id
ParseWitness ==
    /\ IsArchive
    /\ Completed("load")
    /\ Len(loaded) = 3
    /\ \E i, j, k \in DOMAIN loaded :
          /\ content.json.items[i].in_reply_to_user_id.kind = "string"
          /\ content.json.items[j].in_reply_to_user_id.kind = "null"
          /\ content.json.items[k].in_reply_to_user_id.kind = "absent"
          /\ loaded[i].is_reply /\ ~loaded[j].is_reply /\ ~loaded[k].is_reply

\* the entry of the note's list a post is to give
EntryOf(tw) ==
    [created_at |-> FormatDateTime(tw.created_at), text |-> FormatText(tw.full_text)]

\* string a is before string b, byte by byte
LexLess(a, b) ==
    \E n \in 0..Len(a) :
        /\ n <= Len(b)
        /\ \A i \in 1..n : a[i] = b[i]
        /\ \/ n = Len(a) /\ n < Len(b)
           \/ n < Len(a) /\ n < Len(b) /\ CharCode(a[n + 1]) < CharCode(b[n + 1])

\* C9: the tweet list of every note has one entry per post of its group (as
\* many, and every formatted timestamp and text pair as often as among the
\* posts), no entry is before an earlier one by the bytes of its timestamp
\* string, and the entries of one timestamp are in the order of the posts.
TweetListIsSorted ==
    \A k \in DOMAIN notes :
        LET group   == Deref(tweets, tweets_by_yyyymm[k])
            entries == [i \in DOMAIN group |-> EntryOf(group[i])]
            list    == notes[k].tweets
        IN  /\ Len(list) = Len(group)
            /\ \A e \in Range(list) \cup Range(entries) :
                  CountIf(list, LAMBDA x : x = e) = CountIf(entries, LAMBDA x : x = e)
            /\ \A i, j \in DOMAIN list :
                  i < j => ~LexLess(list[j].created_at, list[i].created_at)
            /\ \A e \in Range(entries) :
                  SelectSeq(list, LAMBDA x : x.created_at = e.created_at)
                     = SelectSeq(entries, LAMBDA x : x.created_at = e.created_at)

\* C9 witness: a note of three posts, given out of order, two of them with
\* one timestamp and different texts
TweetListWitness ==
    \E k \in DOMAIN notes :
        LET group == Deref(tweets, tweets_by_yyyymm[k])
            list  == notes[k].tweets
        IN  /\ Len(list) = 3
            /\ EntryOf(group[1]) # list[1]
            /\ \E i, j \in DOMAIN list :
                  /\ i < j
                  /\ list[i].created_at = list[j].created_at
                  /\ list[i].text # list[j].text

\* the posts of a group that no post of the group is earlier than
EarliestOf(group) ==
    {i \in DOMAIN group :
        \A j \in DOMAIN group : group[i].created_at.utc <= group[j].created_at.utc}

\* C10: in every note, whichever of the group's earliest posts is taken, id,
\* file_created_at, year and month are those of the header; file_created_at
\* is the timestamp of the first entry of the tweet list; and year*100+month
\* of the header is the key of the group.
HeaderMatchesNote ==
    \A k \in DOMAIN notes :
        LET group == Deref(tweets, tweets_by_yyyymm[k])
            note  == notes[k]
        IN  /\ \A i \in EarliestOf(group) :
                  /\ note.id = FormatId(group[i].created_at)
                  /\ note.file_created_at = FormatFileCreatedAt(group[i].created_at)
                  /\ note.year = Decimal(LocalFields(group[i]).year)
                  /\ note.month = ZeroPad(LocalFields(group[i]).month, 2)
            /\ note.file_created_at = note.tweets[1].created_at
            /\ note.year = Decimal(k \div 100)
            /\ note.month = ZeroPad(k % 100, 2)

\* the sum of a field over the buckets
SumOver(buckets, Field(_)) ==
    LET Sum[n \in 0..Len(buckets)] ==
            IF n = 0 THEN 0 ELSE Sum[n - 1] + Field(buckets[n])
    IN  Sum[Len(buckets)]

\* C2: generate_activity_stats returns 24 buckets, bucket h labelled h and
\* holding the number of posts of local hour h, of retweets among them and of
\* replies among them (a post that is both counts as both), and the three
\* totals are the sums of the buckets; for the empty slice as well.
StatsAreHourCounts ==
    st_stats.done =>
        LET stats == st_stats.stats
            by_hour == stats.tweet_count_by_hour
        IN  /\ Len(by_hour) = 24
            /\ \A h \in 0..23 :
                  LET at == {i \in DOMAIN st_tweets : LocalFields(st_tweets[i]).hour = h}
                  IN  /\ by_hour[h + 1].hour = h
                      /\ by_hour[h + 1].tweet_count = Cardinality(at)
                      /\ by_hour[h + 1].retweet_count =
                            Cardinality({i \in at : IsRetweet(st_tweets[i])})
                      /\ by_hour[h + 1].reply_count =
                            Cardinality({i \in at : st_tweets[i].is_reply})
            /\ stats.tweet_count = SumOver(by_hour, LAMBDA b : b.tweet_count)
            /\ stats.retweet_count = SumOver(by_hour, LAMBDA b : b.retweet_count)
            /\ stats.reply_count = SumOver(by_hour, LAMBDA b : b.reply_count)

\* C2 witness: the statistics of three posts, one of them a retweet that is
\* a reply, one of them neither
StatsWitness ==
    /\ st_stats.done
    /\ Len(st_tweets) = 3
    /\ \E i \in DOMAIN st_tweets : IsRetweet(st_tweets[i]) /\ st_tweets[i].is_reply
    /\ \E i \in DOMAIN st_tweets : ~IsRetweet(st_tweets[i]) /\ ~st_tweets[i].is_reply
    /\ st_stats.stats.tweet_count = 3

\* rules 2 to 4 of format_text, in its order
Rules2To4(text) == ReplaceHashUrl(ReplaceHashNumber(ReplaceAccount(text)))

\* the places of a text where a mention starts
Mentions(text) ==
    {i \in DOMAIN text : text[i] = "@" /\ i < Len(text) /\ text[i + 1] \in HandleClass}

Newlines(text) == {i \in DOMAIN text : text[i] = "\n"}

\* every newline of the text is followed by at least n spaces
IndentedBy(text, n) ==
    \A i \in Newlines(text) :
        /\ i + n <= Len(text)
        /\ \A j \in 1..n : text[i + j] = " "

\* rule 1 applied once more puts two more spaces behind every newline
Rule1AddsTwoSpaces ==
    LET raw   == Flatten(fmt_text)
        once  == ReplaceNewline(raw)
        twice == ReplaceNewline(once)
    IN  /\ Cardinality(Newlines(once)) = Cardinality(Newlines(raw))
        /\ Len(once) = Len(raw) + 2 * Cardinality(Newlines(raw))
        /\ Len(twice) = Len(once) + 2 * Cardinality(Newlines(raw))
        /\ IndentedBy(once, 2)
        /\ IndentedBy(twice, 4)
        /\ (twice = once) = (Newlines(raw) = {})

\* C7 as claimed: a formatted text is left unchanged by rules 2 to 4, and
\* rule 1 applied once more adds two spaces behind every newline.
FormatIsIdempotent ==
    fmt_out.done =>
        /\ Rules2To4(fmt_out.text) = fmt_out.text
        /\ Rule1AddsTwoSpaces

\* C7 amended: a formatted text is left unchanged by rules 3 and 4, alone
\* and together; rule 2 leaves it unchanged only if it holds no mention and
\* otherwise puts two more brackets on either side of every mention; and rule
\* 1 applied once more adds two spaces behind every newline.
HashRulesAreIdempotent ==
    fmt_out.done =>
        LET out == fmt_out.text
        IN  /\ ReplaceHashNumber(out) = out
            /\ ReplaceHashUrl(out) = out
            /\ ReplaceHashUrl(ReplaceHashNumber(out)) = out
            /\ (ReplaceAccount(out) = out) = (Mentions(out) = {})
            /\ Len(ReplaceAccount(out)) = Len(out) + 4 * Cardinality(Mentions(out))
            /\ (Rules2To4(out) = out) = (Mentions(out) = {})
            /\ \A i \in Mentions(out) :
                  /\ i > 2 /\ out[i - 1] = "[" /\ out[i - 2] = "["
                  /\ Cardinality(Mentions(ReplaceAccount(out))) = Cardinality(Mentions(out))
            /\ Rule1AddsTwoSpaces

\* C7 witness: a text with a mention, a newline and a numeric hashtag before
\* a colon was formatted, rules 1, 2 and 3 having changed it
FormatWitness ==
    /\ fmt_out.done
    /\ Mentions(fmt_out.text) # {}
    /\ Newlines(fmt_out.text) # {}
    /\ ReplaceHashNumber(Flatten(fmt_text)) # Flatten(fmt_text)

=============================================================================
